---- MODULE Spec2Model ----
(***************************************************************************)
(* State-machine model of the trading dashboard's data-synchronisation     *)
(* layer: TradingDashboard (src/src/components/PositionMonitor.js, lines   *)
(* 837-2081), APIService (src/unnamed/part_007) and the RealTimeMetrics    *)
(* WebSocket effect (src/src/components/RealTimeMetrics.js).               *)
(*                                                                         *)
(* One action is one run-to-completion task of the JavaScript event loop:  *)
(* an event handler, a timer callback, or the continuation of an await.    *)
(***************************************************************************)
EXTENDS Integers, Sequences, FiniteSets, TLC

\* ------------------------------------------------------------------ bounds
MaxCycles == 4      \* sync cycles (fetchData runs that pass the guard)
MaxDataCycles == 3  \* the same, where every answer of the backend varies
MaxPolls == 3       \* light-poll ticks (5 s and 10 s intervals together)
MaxTimers == 1      \* pending setTimeout callbacks of one kind
MaxCmds == 1        \* start/stop commands sent
MaxSockets == 3     \* WebSocket objects constructed by one component
MaxTime == 3        \* clock readings of the alerts panel, in half days
MaxRequests == 2    \* APIService.request calls followed one by one
MaxElapsed == 4     \* time a request is followed for, in units of 5 s

\* --------------------------------------------------------------- constants
TRACKED_SYMBOLS == {"BTCUSD", "ETHUSD", "XRPUSD", "SOLUSD"}
Fields == {"price", "volume"}       \* fields of a market snapshot
Empty == 0          \* an initial or fallback value: [], {} or no field
Data == 1           \* a value the backend answered with
Pushed == 2         \* a value a WebSocket message carried
Fallback == 3       \* the object getSystemHealth returns for a failed request
Day == 2            \* 24 * 60 * 60 * 1000 ms, in half days
requestTimeout == 3 \* APIService.requestTimeout = 15000 ms, in units of 5 s

VARIABLES
    \* refs
    isMounted, fetchInProgress, wsRef,
    \* state hooks (the ViewModel)
    selectedSymbol, availableStrategies, strategies, marketData, accountData,
    positionData, tradeData, tradeStats, systemHealth,
    loading, error, lastUpdate, connectionStatus, retryCount,
    \* asynchronous work in flight
    cycles,          \* fetchData invocations that passed the guard and run
    polls,           \* light-poll fetches in flight
    timers,          \* pending setTimeout callbacks
    cmds,            \* start/stop commands in flight
    effectPending,   \* the auto-refresh effect is queued to (re-)run
    sockets,         \* WebSocket objects of the dashboard
    wsTimers,        \* pending reconnect timers (by closure symbol)
    rtm,             \* the RealTimeMetrics component and its channel
    \* environment
    backendRunning,  \* symbols whose strategy the backend runs
    \* history (not program state)
    clock,           \* number of fetches started so far
    started,         \* number of sync cycles started so far
    pollTicks, cmdCount,
    cmdResult,       \* what handleStartStrategy / handleStopStrategy returned last
    strategiesSeq, marketDataSeq,  \* start number of the fetch last written
    failStreak,      \* consecutive failed cycles since the last completed
    lastOp,          \* the handler that ran last
    \* AlertsPanel
    alerts,          \* the alerts state hook: a list of alert objects
    alertProps,      \* the strategies and positions props of the last render
    now,             \* Date.now(), in half days
    alertOp,         \* the operation on the alert list that ran last
    \* APIService
    requests         \* the calls of APIService.request, each with its position

refs == <<isMounted, fetchInProgress, wsRef>>
viewModel == <<marketData, strategies, accountData, positionData, tradeData,
               tradeStats, systemHealth, connectionStatus, lastUpdate>>
uiState == <<selectedSymbol, availableStrategies, loading, error, retryCount>>
inFlight == <<cycles, polls, timers, cmds, effectPending>>
wsState == <<sockets, wsTimers, rtm>>
history == <<clock, started, pollTicks, cmdCount, cmdResult, strategiesSeq,
             marketDataSeq, failStreak, lastOp>>
dashboardVars ==
    <<refs, viewModel, uiState, inFlight, wsState, backendRunning, history>>
alertVars == <<alerts, alertProps, now, alertOp>>
vars == <<dashboardVars, alertVars, requests>>

\* ---------------------------------------------------------------- helpers
Min(a, b) == IF a < b THEN a ELSE b

RECURSIVE Pow2(_)
Pow2(n) == IF n = 0 THEN 1 ELSE 2 * Pow2(n - 1)

\* lastOp: the handler, its symbol or kind, a number (cycle, socket, delay)
\* and, for an answer of the backend, the symbols the answer carries
OpK(name, sym, n, keys) == [op |-> name, sym |-> sym, n |-> n, keys |-> keys]
Op(name, sym, n) == OpK(name, sym, n, {})

\* {} : a snapshot object without fields
EmptySnapshot == [f \in Fields |-> Empty]
\* the snapshot GET /market/{symbol} answers with
Snapshot == [f \in Fields |-> Data]

\* { ...prior, ...data } : shallow merge, fields of data overwrite
Merge(prior, data) ==
    [f \in Fields |-> IF f \in DOMAIN data THEN data[f] ELSE prior[f]]

\* ------------------------------------------------------------ APIService
\* The keys a /strategies/status answer may carry: every tracked symbol, or
\* all but one
StatusDomains == { TRACKED_SYMBOLS, TRACKED_SYMBOLS \ {"ETHUSD"} }

\* The same, and an answer that also carries the status of a symbol the
\* dashboard does not track
BackendDomains == StatusDomains \cup { TRACKED_SYMBOLS \cup {"DOGEUSD"} }

\* The sets of symbols whose /market/{symbol} request may fail in one batch
FailSets == { {}, {"ETHUSD"} }

\* APIService.getAllStrategiesStatus (lines 68-75): the answer, or {} when
\* request() fails
getAllStrategiesStatus(ok, dom) ==
    [s \in (IF ok THEN dom ELSE {}) |-> [running |-> s \in backendRunning]]

\* APIService.getWallet (lines 77-84): the wallet array, or {} when request()
\* fails; {} and [] are both the value Empty here
getWallet(ok) == IF ok THEN Data ELSE Empty

\* (mutation of getMarketData: one failed request empties the whole batch)
getMarketDataAllOrNothing(failed) ==
    [s \in TRACKED_SYMBOLS |-> IF failed # {} THEN EmptySnapshot ELSE Snapshot]

\* APIService.getMarketData for every tracked symbol: {} for a failed request
getMarketData(failed) ==
    [s \in TRACKED_SYMBOLS |-> IF s \in failed THEN EmptySnapshot ELSE Snapshot]

\* APIService.getPositions, getTrades, getTradeStats: {} or [] when request() fails
getOrEmpty(ok) == IF ok THEN Data ELSE Empty

\* APIService.getSystemHealth: the fallback object when request() fails
getSystemHealth(ok) == IF ok THEN Data ELSE Fallback

\* ---------------------------------------------------------------- screens
\* Which of the three render branches of TradingDashboard is on screen
Screen ==
    IF loading /\ ~availableStrategies /\ accountData.balance = 0 THEN "loading"
    ELSE IF error /\ ~availableStrategies /\ accountData.balance = 0 THEN "error"
    ELSE "main"

\* ------------------------------------------------------------- sync cycle
\* (mutation of FetchGuardDrops: the in-progress flag is not consulted)
FetchGuardIgnoresFlag == ~isMounted

\* fetchData line 1035: the call is dropped
FetchGuardDrops == ~isMounted \/ fetchInProgress

\* a caller of fetchData may run when the call is dropped or a cycle is left
CanFetch == FetchGuardDrops \/ started < MaxCycles

\* fetchData up to its first await (lines 1034-1049)
fetchData ==
    IF FetchGuardDrops
    THEN UNCHANGED <<fetchInProgress, error, connectionStatus, cycles, clock,
                     started>>
    ELSE /\ fetchInProgress' = TRUE
         /\ error' = FALSE
         /\ connectionStatus' = "connecting"
         /\ clock' = clock + 1
         /\ started' = started + 1
         /\ cycles' = cycles \cup {[seq |-> clock + 1, pc |-> "avail",
                                    pending |-> {}, reqs |-> {"available"}]}

\* the cycle c moves on to its next await
Moved(c, pc, pending, reqs) ==
    (cycles \ {c}) \cup {[seq |-> c.seq, pc |-> pc, pending |-> pending,
                           reqs |-> c.reqs \cup reqs]}

\* (mutation of CatchFinally: the catch block leaves connectionStatus alone)
CatchFinallyKeepsStatus(c) ==
    /\ cycles' = cycles \ {c}
    /\ fetchInProgress' = FALSE
    /\ failStreak' = failStreak + 1
    /\ IF isMounted
       THEN /\ error' = TRUE
            /\ retryCount' = retryCount + 1
            /\ loading' = FALSE
            /\ effectPending' \in {"rerun", "none"}
            /\ UNCHANGED connectionStatus
       ELSE UNCHANGED <<error, connectionStatus, retryCount, loading, effectPending>>

\* (mutation of CatchFinally: there is no finally block)
CatchWithoutFinally(c) ==
    /\ cycles' = cycles \ {c}
    /\ failStreak' = failStreak + 1
    /\ IF isMounted
       THEN /\ error' = TRUE
            /\ connectionStatus' = "error"
            /\ retryCount' = retryCount + 1
            /\ effectPending' \in {"rerun", "none"}
            /\ UNCHANGED <<fetchInProgress, loading>>
       ELSE UNCHANGED <<fetchInProgress, error, connectionStatus, retryCount,
                        loading, effectPending>>

\* (mutation of CatchFinally: the catch block does not count the failure)
CatchFinallyKeepsRetryCount(c) ==
    /\ cycles' = cycles \ {c}
    /\ fetchInProgress' = FALSE
    /\ failStreak' = failStreak + 1
    /\ IF isMounted
       THEN /\ error' = TRUE
            /\ connectionStatus' = "error"
            /\ loading' = FALSE
            /\ effectPending' \in {"rerun", "none"}
            /\ UNCHANGED retryCount
       ELSE UNCHANGED <<error, connectionStatus, retryCount, loading, effectPending>>

\* the catch and finally blocks of fetchData (lines 1140-1150).  The change of
\* connectionStatus to 'error' re-runs the auto-refresh effect (it is in the
\* effect's dependency list, line 1724).  Whether React runs that effect
\* inside the handler, before the finally block clears fetchInProgress (the
\* synchronous rendering of a legacy root), or in a later task (batched
\* rendering) is not decided by this repository: both are modelled.
CatchFinally(c) ==
    /\ cycles' = cycles \ {c}
    /\ fetchInProgress' = FALSE
    /\ failStreak' = failStreak + 1
    /\ IF isMounted
       THEN /\ error' = TRUE
            /\ connectionStatus' = "error"
            /\ retryCount' = retryCount + 1
            /\ loading' = FALSE
            /\ effectPending' \in {"rerun", "none"}
       ELSE UNCHANGED <<error, connectionStatus, retryCount, loading, effectPending>>

\* an early "return" inside the try block: only the finally block runs
ReturnUnmounted(c) ==
    /\ cycles' = cycles \ {c}
    /\ fetchInProgress' = FALSE
    /\ UNCHANGED <<error, connectionStatus, retryCount, loading, effectPending,
                   failStreak>>

\* the auto-refresh effect runs again after connectionStatus changed to
\* 'error': it calls fetchData (line 1708)
AutoRefreshEffect ==
    /\ effectPending = "rerun" /\ isMounted /\ CanFetch
    /\ effectPending' = "none"
    /\ fetchData
    /\ lastOp' = Op("effect", "", started')
    /\ UNCHANGED <<isMounted, wsRef, selectedSymbol, availableStrategies,
                   strategies, marketData, accountData, positionData, tradeData,
                   tradeStats, systemHealth, loading, lastUpdate, retryCount,
                   polls, timers, cmds, wsState, backendRunning, pollTicks,
                   cmdCount, cmdResult, strategiesSeq, marketDataSeq, failStreak>>

\* fetchAvailableStrategies resolves (lines 923-946, 1049-1059)
AvailDone(c, r) ==
    /\ c \in cycles /\ c.pc = "avail"
    /\ IF r # "fail"
       THEN /\ availableStrategies' =
                   IF isMounted THEN (r = "list") ELSE availableStrategies
            /\ cycles' = Moved(c, "basic", {}, {"health", "status", "wallet"})
            /\ UNCHANGED <<fetchInProgress, error, connectionStatus, retryCount,
                           loading, effectPending, failStreak>>
       ELSE /\ CatchFinally(c)
            /\ UNCHANGED availableStrategies
    /\ lastOp' = IF r = "fail" THEN Op("cycleFailed", "available", c.seq)
                  ELSE Op("availDone", "", c.seq)
    /\ UNCHANGED <<isMounted, wsRef, selectedSymbol, strategies, marketData,
                   accountData, positionData, tradeData, tradeStats,
                   systemHealth, lastUpdate, polls, timers, cmds, wsState,
                   backendRunning, clock, started, pollTicks, cmdCount, cmdResult,
                   strategiesSeq, marketDataSeq>>

\* Promise.allSettled([getHealth, getAllStrategiesStatus, getWallet]) settles
\* (lines 1055-1115): health is the only one of the three that can reject
BasicDone(c, healthOk, balance, statusOk, dom, walletOk) ==
    /\ c \in cycles /\ c.pc = "basic"
    /\ IF ~isMounted
       THEN /\ ReturnUnmounted(c)
            /\ UNCHANGED <<strategies, accountData, strategiesSeq>>
            /\ lastOp' = Op("cycleAbandoned", "", c.seq)
       ELSE IF healthOk
       THEN /\ connectionStatus' = "connected"
            /\ strategies' = getAllStrategiesStatus(statusOk, dom)
            /\ strategiesSeq' = c.seq
            /\ accountData' = [balance |-> balance, wallet |-> getWallet(walletOk)]
            /\ cycles' = Moved(c, "market", {}, {"market"})
            /\ lastOp' = OpK("basicDone",
                             IF statusOk /\ walletOk THEN "ok"
                             ELSE IF walletOk THEN "status"
                             ELSE IF statusOk THEN "wallet" ELSE "both",
                             c.seq, IF statusOk THEN dom ELSE {})
            /\ UNCHANGED <<fetchInProgress, error, retryCount, loading,
                           effectPending, failStreak>>
       ELSE /\ CatchFinally(c)
            /\ UNCHANGED <<strategies, accountData, strategiesSeq>>
            /\ lastOp' = Op("cycleFailed", "health", c.seq)
    /\ UNCHANGED <<isMounted, wsRef, selectedSymbol, availableStrategies,
                   marketData, positionData, tradeData, tradeStats,
                   systemHealth, lastUpdate, polls, timers, cmds, wsState,
                   backendRunning, clock, started, pollTicks, cmdCount, cmdResult,
                   marketDataSeq>>

\* Promise.all(marketPromises) resolves (lines 1117-1132)
MarketDone(c, failed) ==
    /\ c \in cycles /\ c.pc = "market"
    /\ IF ~isMounted
       THEN /\ ReturnUnmounted(c)
            /\ UNCHANGED <<marketData, marketDataSeq>>
            /\ lastOp' = Op("cycleAbandoned", "", c.seq)
       ELSE /\ marketData' = getMarketData(failed)
            /\ marketDataSeq' = c.seq
            /\ cycles' = Moved(c, "extra", {"positions", "trades", "system"},
                               {"positions", "trades", "system"})
            /\ lastOp' = OpK("marketDone", "", c.seq, TRACKED_SYMBOLS \ failed)
            /\ UNCHANGED <<fetchInProgress, error, connectionStatus, retryCount,
                           loading, effectPending, failStreak>>
    /\ UNCHANGED <<isMounted, wsRef, selectedSymbol, availableStrategies,
                   strategies, accountData, positionData, tradeData, tradeStats,
                   systemHealth, lastUpdate, polls, timers, cmds, wsState,
                   backendRunning, clock, started, pollTicks, cmdCount, cmdResult,
                   strategiesSeq>>

\* (mutation of SetLastUpdate: the completion does not stamp lastUpdate)
KeepLastUpdate(c) == lastUpdate

\* safeSetState(setLastUpdate, new Date()) (line 1134): the time of the write
\* is identified by the cycle's number
SetLastUpdate(c) == IF isMounted THEN c.seq ELSE lastUpdate

\* one of fetchPositionData / fetchTradeData / fetchSystemHealth finishes
\* (lines 991-1031); after the last one the cycle completes (lines 1134-1150)
ExtraDone(c, k, ok) ==
    /\ c \in cycles /\ c.pc = "extra" /\ k \in c.pending
    /\ positionData' =
          IF k = "positions" /\ isMounted
          THEN [s \in TRACKED_SYMBOLS |-> getOrEmpty(ok)]
          ELSE positionData
    /\ tradeData' = IF k = "trades" /\ isMounted THEN getOrEmpty(ok) ELSE tradeData
    /\ tradeStats' = IF k = "trades" /\ isMounted THEN getOrEmpty(ok) ELSE tradeStats
    /\ systemHealth' =
          IF k = "system" /\ isMounted THEN getSystemHealth(ok) ELSE systemHealth
    /\ IF c.pending = {k}
       THEN /\ cycles' = cycles \ {c}
            /\ fetchInProgress' = FALSE
            /\ failStreak' = 0
            /\ lastUpdate' = SetLastUpdate(c)
            /\ retryCount' = IF isMounted THEN 0 ELSE retryCount
            /\ loading' = IF isMounted THEN FALSE ELSE loading
            /\ lastOp' = Op("cycleCompleted", "", c.seq)
       ELSE /\ cycles' = Moved(c, "extra", c.pending \ {k}, {})
            /\ lastOp' = Op("extraDone", k, c.seq)
            /\ UNCHANGED <<fetchInProgress, failStreak, lastUpdate, retryCount,
                           loading>>
    /\ UNCHANGED <<isMounted, wsRef, selectedSymbol, availableStrategies,
                   strategies, marketData, accountData, error, connectionStatus,
                   polls, timers, cmds, effectPending, wsState, backendRunning,
                   clock, started, pollTicks, cmdCount, cmdResult, strategiesSeq,
                   marketDataSeq>>

\* ------------------------------------------------------------ light polls
\* (mutation of LightPollGuard: connectionStatus is not consulted)
LightPollGuardAnyStatus == isMounted /\ ~fetchInProgress

\* the test of the auto-refresh interval's callback (line 1712)
LightPollGuard ==
    isMounted /\ ~fetchInProgress /\ connectionStatus = "connected"

\* the auto-refresh interval fires (lines 1711-1716): fetchStrategiesStatus
\* and fetchMarketData start
MarketInterval ==
    /\ LightPollGuard
    /\ pollTicks < MaxPolls
    /\ polls' = polls \cup {[kind |-> "status", seq |-> clock + 1],
                            [kind |-> "market", seq |-> clock + 1]}
    /\ clock' = clock + 1
    /\ pollTicks' = pollTicks + 1
    /\ lastOp' = Op("marketInterval", "", clock + 1)
    /\ UNCHANGED <<refs, viewModel, uiState, cycles, timers, cmds,
                   effectPending, wsState, backendRunning, started, cmdCount, cmdResult,
                   strategiesSeq, marketDataSeq, failStreak>>

\* the status interval fires (lines 1788-1803): fetchStrategiesStatus starts
StatusInterval ==
    /\ isMounted /\ ~fetchInProgress /\ connectionStatus = "connected"
    /\ pollTicks < MaxPolls
    /\ polls' = polls \cup {[kind |-> "status", seq |-> clock + 1]}
    /\ clock' = clock + 1
    /\ pollTicks' = pollTicks + 1
    /\ lastOp' = Op("statusInterval", "", clock + 1)
    /\ UNCHANGED <<refs, viewModel, uiState, cycles, timers, cmds,
                   effectPending, wsState, backendRunning, started, cmdCount, cmdResult,
                   strategiesSeq, marketDataSeq, failStreak>>

\* fetchStrategiesStatus resumes after its await (lines 949-956)
StatusPollDone(p, ok, dom) ==
    /\ p \in polls /\ p.kind = "status"
    /\ polls' = polls \ {p}
    /\ strategies' =
          IF isMounted THEN getAllStrategiesStatus(ok, dom) ELSE strategies
    /\ strategiesSeq' = IF isMounted THEN p.seq ELSE strategiesSeq
    /\ lastOp' = OpK("statusPollDone", IF ok THEN "ok" ELSE "status", p.seq,
                     IF ok THEN dom ELSE {})
    /\ UNCHANGED <<refs, marketData, accountData, positionData, tradeData,
                   tradeStats, systemHealth, connectionStatus, lastUpdate,
                   uiState, cycles, timers, cmds, effectPending, wsState,
                   backendRunning, clock, started, pollTicks, cmdCount, cmdResult, marketDataSeq,
                   failStreak>>

\* fetchMarketData resumes after its last await (lines 959-975)
MarketPollDone(p, failed) ==
    /\ p \in polls /\ p.kind = "market"
    /\ polls' = polls \ {p}
    /\ marketData' = IF isMounted THEN getMarketData(failed) ELSE marketData
    /\ marketDataSeq' = IF isMounted THEN p.seq ELSE marketDataSeq
    /\ lastOp' = OpK("marketPollDone", "", p.seq, TRACKED_SYMBOLS \ failed)
    /\ UNCHANGED <<refs, strategies, accountData, positionData, tradeData,
                   tradeStats, systemHealth, connectionStatus, lastUpdate,
                   uiState, cycles, timers, cmds, effectPending, wsState,
                   backendRunning, clock, started, pollTicks, cmdCount, cmdResult, strategiesSeq,
                   failStreak>>
\* ------------------------------------------------------ timers and buttons
\* A button's handler runs only once the effects of the last render have run
\* (effectPending = "none"): React runs them before it handles a click.
\* (mutation of RetryDelay: the delay is not capped)
RetryDelayUncapped(count) == 1000 * Pow2(count)

\* handleRetry line 1217
RetryDelay(count) == Min(1000 * Pow2(count), 10000)

\* the Retry button of the error screen (lines 1216-1223, 1873-1879)
HandleRetry ==
    /\ isMounted /\ effectPending = "none" /\ Screen = "error"
    /\ timers.retry < MaxTimers
    /\ timers' = [timers EXCEPT !.retry = @ + 1]
    /\ lastOp' = Op("handleRetry", "", RetryDelay(retryCount))
    /\ UNCHANGED <<refs, viewModel, uiState, cycles, polls, cmds, effectPending,
                   wsState, backendRunning, clock, started, pollTicks, cmdCount, cmdResult,
                   strategiesSeq, marketDataSeq, failStreak>>

\* a setTimeout callback of handleRetry or of a successful start/stop command
\* (lines 1169-1173, 1193-1197, 1218-1222)
TimerFires(kind) ==
    /\ timers[kind] > 0 /\ CanFetch
    /\ timers' = [timers EXCEPT ![kind] = @ - 1]
    /\ fetchData
    /\ lastOp' = Op("timerFires", kind, started')
    /\ UNCHANGED <<isMounted, wsRef, selectedSymbol, availableStrategies,
                   strategies, marketData, accountData, positionData, tradeData,
                   tradeStats, systemHealth, loading, lastUpdate, retryCount,
                   polls, cmds, effectPending, wsState, backendRunning,
                   pollTicks, cmdCount, cmdResult, strategiesSeq, marketDataSeq, failStreak>>

\* the Refresh button of the header (lines 1210-1213, 1950-1956)
HandleRefresh ==
    /\ isMounted /\ effectPending = "none" /\ Screen = "main" /\ ~loading
    /\ CanFetch
    /\ loading' = TRUE
    /\ fetchData
    /\ lastOp' = Op("handleRefresh", "", started')
    /\ UNCHANGED <<isMounted, wsRef, selectedSymbol, availableStrategies,
                   strategies, marketData, accountData, positionData, tradeData,
                   tradeStats, systemHealth, lastUpdate, retryCount, polls,
                   timers, cmds, effectPending, wsState, backendRunning,
                   pollTicks, cmdCount, cmdResult, strategiesSeq, marketDataSeq, failStreak>>

\* handleStartStrategy / handleStopStrategy up to the await (lines 1154-1164,
\* 1185-1188): the command is sent for the selected symbol
HandleCommand(kind) ==
    /\ isMounted /\ effectPending = "none" /\ Screen = "main"
    /\ cmdCount < MaxCmds
    /\ cmdCount' = cmdCount + 1
    /\ cmds' = cmds \cup {[kind |-> kind, sym |-> selectedSymbol,
                           id |-> cmdCount + 1]}
    /\ lastOp' = Op(kind, selectedSymbol, cmdCount + 1)
    /\ UNCHANGED <<refs, viewModel, uiState, cycles, polls, timers,
                   effectPending, wsState, backendRunning, clock, started,
                   pollTicks, cmdResult, strategiesSeq, marketDataSeq,
                   failStreak>>

\* the ways a command's request settles: {success: true, message},
\* {success: false, message}, an empty (null) body, or a rejection of
\* APIService.request (network error, timeout, non-2xx status)
CommandAnswers == {"ok", "refused", "empty", "error"}

\* nothing returned yet
NoResult == [success |-> FALSE, message |-> "none", thrown |-> FALSE]

\* (mutation of CommandResult: without the catch block a rejection escapes)
CommandResultRethrows(r) ==
    [success |-> r = "ok",
     message |-> IF r = "empty" THEN "No response from server"
                 ELSE IF r = "error" THEN "none" ELSE "backend",
     thrown |-> r = "error"]

\* what handleStartStrategy / handleStopStrategy return (lines 1178-1182,
\* 1202-1206): the answer, or {success: false, message} with the fixed
\* message for an empty answer and error.message for a rejection
CommandResult(r) ==
    [success |-> r = "ok",
     message |-> IF r = "empty" THEN "No response from server"
                 ELSE IF r = "error" THEN "error" ELSE "backend",
     thrown |-> FALSE]

\* the command's request settles (lines 1165-1182, 1189-1206)
CommandDone(c, r) ==
    /\ c \in cmds /\ r \in CommandAnswers
    /\ cmds' = cmds \ {c}
    /\ cmdResult' = CommandResult(r)
    /\ backendRunning' =
          IF r # "ok" THEN backendRunning
          ELSE IF c.kind = "start" THEN backendRunning \cup {c.sym}
          ELSE backendRunning \ {c.sym}
    /\ IF r = "ok" /\ isMounted
       THEN /\ timers.refresh < MaxTimers
            /\ timers' = [timers EXCEPT !.refresh = @ + 1]
       ELSE UNCHANGED timers
    /\ lastOp' = Op("commandDone", r, c.id)
    /\ UNCHANGED <<refs, viewModel, uiState, cycles, polls, effectPending,
                   wsState, clock, started, pollTicks, cmdCount, strategiesSeq,
                   marketDataSeq, failStreak>>

\* -------------------------------------------------------------- WebSocket
\* WebSocket.close(): a socket that is connecting or open starts closing
Close(socks, i) ==
    IF i \in DOMAIN socks /\ socks[i].state \in {"connecting", "open"}
    THEN [socks EXCEPT ![i].state = "closing"]
    ELSE socks

\* connectWebSocket of the effect run for symbol sym (lines 1728-1760)
Connect(socks, sym) == Append(socks, [sym |-> sym, state |-> "connecting"])

\* (mutation of PatchMarketData: the message replaces the symbol's snapshot)
PatchReplacesSnapshot(md, sym, data) ==
    [s \in DOMAIN md \cup {sym} |->
        IF s = sym THEN Merge(EmptySnapshot, data) ELSE md[s]]

\* the message handler's state write (lines 1739-1742)
PatchMarketData(md, sym, data) ==
    [s \in DOMAIN md \cup {sym} |->
        IF s = sym
        THEN Merge(IF sym \in DOMAIN md THEN md[sym] ELSE EmptySnapshot, data)
        ELSE md[s]]

\* the mount effects, in one task: the auto-refresh effect calls fetchData
\* (line 1708) and the WebSocket effect calls connectWebSocket (line 1762)
Mount ==
    /\ effectPending = "mount" /\ isMounted
    /\ effectPending' = "none"
    /\ fetchData
    /\ sockets' = Connect(sockets, selectedSymbol)
    /\ wsRef' = Len(sockets) + 1
    /\ lastOp' = Op("mount", selectedSymbol, started')
    /\ UNCHANGED <<isMounted, selectedSymbol, availableStrategies, strategies,
                   marketData, accountData, positionData, tradeData, tradeStats,
                   systemHealth, loading, lastUpdate, retryCount, polls, timers,
                   cmds, wsTimers, rtm, backendRunning, pollTicks, cmdCount, cmdResult,
                   strategiesSeq, marketDataSeq, failStreak>>

\* a symbol button (line 1289): the WebSocket effect's cleanup closes
\* wsRef.current (lines 1764-1768) and the effect connects for the new symbol
SelectSymbol(sym) ==
    /\ isMounted /\ effectPending = "none" /\ Screen = "main"
    /\ sym \in TRACKED_SYMBOLS /\ sym # selectedSymbol
    /\ Len(sockets) < MaxSockets
    /\ selectedSymbol' = sym
    /\ sockets' = Connect(Close(sockets, wsRef), sym)
    /\ wsRef' = Len(sockets) + 1
    /\ lastOp' = Op("selectSymbol", sym, Len(sockets) + 1)
    /\ UNCHANGED <<isMounted, fetchInProgress, viewModel, availableStrategies,
                   loading, error, retryCount, inFlight, wsTimers, rtm,
                   backendRunning, clock, started, pollTicks, cmdCount, cmdResult,
                   strategiesSeq, marketDataSeq, failStreak>>

\* onopen (lines 1732-1734)
WsOpen(i) ==
    /\ i \in DOMAIN sockets /\ sockets[i].state = "connecting"
    /\ sockets' = [sockets EXCEPT ![i].state = "open"]
    /\ lastOp' = Op("wsOpen", sockets[i].sym, i)
    /\ UNCHANGED <<refs, viewModel, uiState, inFlight, wsTimers, rtm,
                   backendRunning, clock, started, pollTicks, cmdCount, cmdResult,
                   strategiesSeq, marketDataSeq, failStreak>>

\* (mutation of WsMessage: what cannot be parsed is merged all the same)
WsMessageMergesMalformed(i, valid) ==
    /\ i \in DOMAIN sockets /\ sockets[i].state = "open"
    /\ marketData' =
          PatchMarketData(marketData, sockets[i].sym, [price |-> Pushed])
    /\ lastOp' = Op(IF valid THEN "wsMessage" ELSE "wsMalformed",
                    sockets[i].sym, i)
    /\ UNCHANGED <<refs, strategies, accountData, positionData, tradeData,
                   tradeStats, systemHealth, connectionStatus, lastUpdate,
                   uiState, inFlight, wsState, backendRunning, clock, started, pollTicks,
                   cmdCount, cmdResult, strategiesSeq, marketDataSeq, failStreak>>

\* onmessage (lines 1736-1746): a message event is only delivered to an open
\* socket; its data is a JSON object with a price, or no JSON at all
WsMessage(i, valid) ==
    /\ i \in DOMAIN sockets /\ sockets[i].state = "open"
    /\ marketData' =
          IF valid
          THEN PatchMarketData(marketData, sockets[i].sym, [price |-> Pushed])
          ELSE marketData
    /\ lastOp' = Op(IF valid THEN "wsMessage" ELSE "wsMalformed",
                    sockets[i].sym, i)
    /\ UNCHANGED <<refs, strategies, accountData, positionData, tradeData,
                   tradeStats, systemHealth, connectionStatus, lastUpdate,
                   uiState, inFlight, wsState, backendRunning, clock, started, pollTicks,
                   cmdCount, cmdResult, strategiesSeq, marketDataSeq, failStreak>>

\* onclose (lines 1748-1752), whatever closed the socket: the server, a
\* network error, or close() completing.  It arms the reconnect timer.
WsClose(i) ==
    /\ i \in DOMAIN sockets /\ sockets[i].state # "closed"
    /\ sockets' = [sockets EXCEPT ![i].state = "closed"]
    /\ wsTimers' = [wsTimers EXCEPT ![sockets[i].sym] = @ + 1]
    /\ lastOp' = Op("wsClose", sockets[i].sym, i)
    /\ UNCHANGED <<refs, viewModel, uiState, inFlight, rtm, backendRunning,
                   clock, started, pollTicks, cmdCount, cmdResult, strategiesSeq,
                   marketDataSeq, failStreak>>

\* the reconnect timer fires (line 1751): connectWebSocket of the effect run
\* that created the closed socket, hence for that run's symbol
ReconnectTimer(sym) ==
    /\ sym \in TRACKED_SYMBOLS /\ wsTimers[sym] > 0
    /\ Len(sockets) < MaxSockets
    /\ wsTimers' = [wsTimers EXCEPT ![sym] = @ - 1]
    /\ sockets' = Connect(sockets, sym)
    /\ wsRef' = Len(sockets) + 1
    /\ lastOp' = Op("reconnect", sym, Len(sockets) + 1)
    /\ UNCHANGED <<isMounted, fetchInProgress, viewModel, uiState, inFlight,
                   rtm, backendRunning, clock, started, pollTicks, cmdCount, cmdResult,
                   strategiesSeq, marketDataSeq, failStreak>>

\* ------------------------------------------------------ RealTimeMetrics
\* RealTimeMetrics.js, rendered by the dashboard while showMetrics is set
\* (PositionMonitor.js lines 1689-1698).  rtm.sockets holds the states of the
\* /ws/metrics sockets, rtm.timers the pending reconnect timers.

\* the effect's cleanup (lines 64-67): the interval is cleared and
\* isConnected reset; the socket is not closed, a pending timer not cleared
MetricsCleanup(m) == [m EXCEPT !.mounted = FALSE, !.isConnected = FALSE]

\* the Metrics checkbox (PositionMonitor.js line 1589) mounts the component,
\* whose effect calls connectWebSocket (lines 33-62), or unmounts it
ToggleMetrics ==
    /\ isMounted /\ effectPending = "none" /\ Screen = "main"
    /\ rtm.mounted \/ Len(rtm.sockets) < MaxSockets
    /\ rtm' = IF rtm.mounted
              THEN MetricsCleanup(rtm)
              ELSE [rtm EXCEPT !.mounted = TRUE,
                               !.sockets = Append(@, "connecting")]
    /\ lastOp' = Op(IF rtm.mounted THEN "metricsUnmount" ELSE "metricsMount",
                    "", Len(rtm'.sockets))
    /\ UNCHANGED <<refs, viewModel, uiState, inFlight, sockets, wsTimers,
                   backendRunning, clock, started, pollTicks, cmdCount, cmdResult,
                   strategiesSeq, marketDataSeq, failStreak>>

\* ws.onopen (lines 36-39)
MetricsOpen(i) ==
    /\ i \in DOMAIN rtm.sockets /\ rtm.sockets[i] = "connecting"
    /\ rtm' = [rtm EXCEPT !.sockets[i] = "open", !.isConnected = TRUE]
    /\ lastOp' = Op("metricsOpen", "", i)
    /\ UNCHANGED <<refs, viewModel, uiState, inFlight, sockets, wsTimers,
                   backendRunning, clock, started, pollTicks, cmdCount, cmdResult,
                   strategiesSeq, marketDataSeq, failStreak>>

\* ws.onmessage (lines 41-48): JSON.parse throws on a malformed message and
\* the catch block leaves wsMetrics alone
MetricsMessage(i, valid) ==
    /\ i \in DOMAIN rtm.sockets /\ rtm.sockets[i] = "open"
    /\ rtm' = [rtm EXCEPT !.wsMetrics = IF valid THEN Pushed ELSE @]
    /\ lastOp' = Op(IF valid THEN "metricsMessage" ELSE "metricsMalformed",
                    "", i)
    /\ UNCHANGED <<refs, viewModel, uiState, inFlight, sockets, wsTimers,
                   backendRunning, clock, started, pollTicks, cmdCount, cmdResult,
                   strategiesSeq, marketDataSeq, failStreak>>

\* ws.onclose (lines 50-54): the server or the network closed the socket
\* (the component never calls close()); the reconnect timer is armed
MetricsClose(i) ==
    /\ i \in DOMAIN rtm.sockets /\ rtm.sockets[i] # "closed"
    /\ rtm' = [rtm EXCEPT !.sockets[i] = "closed", !.isConnected = FALSE,
                          !.timers = @ + 1]
    /\ lastOp' = Op("metricsClose", "", i)
    /\ UNCHANGED <<refs, viewModel, uiState, inFlight, sockets, wsTimers,
                   backendRunning, clock, started, pollTicks, cmdCount, cmdResult,
                   strategiesSeq, marketDataSeq, failStreak>>

\* the reconnect timer fires (line 53): connectWebSocket
MetricsReconnect ==
    /\ rtm.timers > 0 /\ Len(rtm.sockets) < MaxSockets
    /\ rtm' = [rtm EXCEPT !.timers = @ - 1,
                          !.sockets = Append(@, "connecting")]
    /\ lastOp' = Op("metricsReconnect", "", Len(rtm.sockets) + 1)
    /\ UNCHANGED <<refs, viewModel, uiState, inFlight, sockets, wsTimers,
                   backendRunning, clock, started, pollTicks, cmdCount, cmdResult,
                   strategiesSeq, marketDataSeq, failStreak>>

\* the dashboard unmounts: the WebSocket effect's cleanup and the unmount
\* cleanup (lines 1764-1786), and the cleanup of RealTimeMetrics if it is
\* rendered; the intervals are cleared (lines 1718-1723, 1797-1801), pending
\* setTimeout callbacks are not
Unmount ==
    /\ isMounted /\ effectPending # "mount"
    /\ isMounted' = FALSE
    /\ fetchInProgress' = FALSE
    /\ sockets' = Close(sockets, wsRef)
    /\ rtm' = MetricsCleanup(rtm)
    /\ lastOp' = Op("unmount", "", 0)
    /\ UNCHANGED <<wsRef, viewModel, uiState, inFlight, wsTimers,
                   backendRunning, clock, started, pollTicks, cmdCount, cmdResult,
                   strategiesSeq, marketDataSeq, failStreak>>

\* ----------------------------------------------------- APIService.request
\* src/unnamed/part_007 lines 8-49.  A call is "idle" before it is made,
\* "fetching" while fetch() is pending, "readingBody" / "readingError" while
\* response.json() / response.text() is pending, and then "returned" or
\* "failed"; timer tells whether its setTimeout is armed, elapsed the time
\* since the call was made, error the error it failed with.

Pending == {"fetching", "readingBody", "readingError"}

Call(state, timer, elapsed, err) ==
    [state |-> state, timer |-> timer, elapsed |-> elapsed, error |-> err]

\* fetch() resolved with the response headers (lines 26-38): the timer is
\* cleared, then the body is read
FetchResolved(r, ok) ==
    [r EXCEPT !.state = IF ok THEN "readingBody" ELSE "readingError",
              !.timer = FALSE]

\* the call is made (lines 9-29): the timer is armed and fetch() called
RequestStart(i) ==
    /\ requests[i].state = "idle"
    /\ requests' = [requests EXCEPT ![i] = Call("fetching", TRUE, 0, "none")]
    /\ UNCHANGED <<dashboardVars, alertVars>>

\* fetch() resolves with a 2xx status (ok) or another one
FetchResolves(i, ok) ==
    /\ requests[i].state = "fetching"
    /\ requests' = [requests EXCEPT ![i] = FetchResolved(@, ok)]
    /\ UNCHANGED <<dashboardVars, alertVars>>

\* fetch() rejects (network error): the catch block rethrows (lines 42-48);
\* the timer stays armed
FetchRejects(i) ==
    /\ requests[i].state = "fetching"
    /\ requests' = [requests EXCEPT ![i].state = "failed",
                                    ![i].error = "network"]
    /\ UNCHANGED <<dashboardVars, alertVars>>

\* the body has been read: response.json() resolves or throws (line 38),
\* response.text() resolves and the API error is thrown (lines 33-36), or the
\* connection breaks
BodyRead(i, good) ==
    /\ requests[i].state \in {"readingBody", "readingError"}
    /\ requests' =
          [requests EXCEPT
             ![i].state = IF good /\ requests[i].state = "readingBody"
                          THEN "returned" ELSE "failed",
             ![i].error = IF ~good THEN "body"
                          ELSE IF requests[i].state = "readingError"
                          THEN "api" ELSE "none"]
    /\ UNCHANGED <<dashboardVars, alertVars>>

\* the timer fires (line 24): controller.abort(); a pending fetch() rejects
\* with an AbortError and the call fails with the timeout error (lines 44-46)
TimeoutFires(i) ==
    /\ requests[i].timer /\ requests[i].elapsed = requestTimeout
    /\ requests' =
          [requests EXCEPT
             ![i].timer = FALSE,
             ![i].state = IF @ = "fetching" THEN "failed" ELSE @,
             ![i].error = IF requests[i].state = "fetching" THEN "timeout"
                          ELSE @]
    /\ UNCHANGED <<dashboardVars, alertVars>>

\* 5 s pass for every call that was made, unless a timer is due
RequestTick ==
    /\ \A i \in DOMAIN requests :
          ~(requests[i].timer /\ requests[i].elapsed = requestTimeout)
    /\ \E i \in DOMAIN requests : requests[i].state \in Pending
    /\ \A i \in DOMAIN requests :
          requests[i].state \in Pending => requests[i].elapsed < MaxElapsed
    /\ requests' =
          [i \in DOMAIN requests |->
              IF requests[i].state = "idle" THEN requests[i]
              ELSE [requests[i] EXCEPT
                      !.elapsed = IF @ < MaxElapsed THEN @ + 1 ELSE @]]
    /\ UNCHANGED <<dashboardVars, alertVars>>

\* ------------------------------------------------------------ AlertsPanel
\* src/unnamed/part_002 (AlertsPanel.js).  The panel derives alerts from its
\* strategies and positions props in an effect and merges them into its
\* alerts state; the user dismisses one alert or clears the list.

\* the order in which Object.entries lists the symbols of a strategies prop
SymbolOrder == <<"BTCUSD", "ETHUSD", "XRPUSD", "SOLUSD">>

\* a strategy status: running, a truthy error, and start_time if it has one
Status(running, err, hasStart, start) ==
    [running |-> running, error |-> err, hasStart |-> hasStart,
     start_time |-> start]

\* a position
Position(sym, pnl, margin) ==
    [symbol |-> sym, unrealized_pnl |-> pnl, margin |-> margin]

\* the strategies props the panel is rendered with
StrategyInputs ==
    { [s \in {} |-> Status(FALSE, FALSE, FALSE, 0)],
      [s \in {"BTCUSD", "ETHUSD"} |->
          IF s = "BTCUSD" THEN Status(FALSE, TRUE, FALSE, 0)
          ELSE Status(TRUE, FALSE, TRUE, -1)],
      [s \in {"BTCUSD"} |-> Status(TRUE, TRUE, FALSE, 0)] }

\* the positions props the panel is rendered with
PositionInputs ==
    { <<>>,
      <<Position("BTCUSD", 60, 100), Position("BTCUSD", 75, 100)>>,
      <<Position("ETHUSD", -30, 100), Position("BTCUSD", 50, 100),
        Position("ETHUSD", 60, 0)>> }

\* `${symbol}-error`, `${symbol}-longtime`, `pos-${index}-profit`,
\* `pos-${index}-loss`: the parts the id string is formatted from
StrategyAlertId(sym, kind) == [scope |-> sym, index |-> 0, kind |-> kind]
PositionAlertId(index, kind) == [scope |-> "pos", index |-> index, kind |-> kind]

NewAlert(id, type, sym, t, priority) ==
    [id |-> id, type |-> type, symbol |-> sym, timestamp |-> t,
     priority |-> priority]

\* the alerts of one entry of strategies (lines 14-46)
StrategyAlerts(sym, st, t) ==
    IF ~st.running THEN <<>>
    ELSE (IF st.error
          THEN <<NewAlert(StrategyAlertId(sym, "error"), "error", sym, t, "high")>>
          ELSE <<>>)
         \o
         (IF st.hasStart /\ t - st.start_time > Day
          THEN <<NewAlert(StrategyAlertId(sym, "longtime"), "warning", sym, t,
                          "low")>>
          ELSE <<>>)

\* (pnl / margin) * 100 (line 57); the inputs divide without remainder
PnlPercent(p) == (p.unrealized_pnl * 100) \div p.margin

\* the alert of the position at a (0-based) index (lines 52-80)
PositionAlerts(index, p, t) ==
    IF ~(p.margin > 0) THEN <<>>
    ELSE IF PnlPercent(p) > 50
    THEN <<NewAlert(PositionAlertId(index, "profit"), "success", p.symbol, t,
                    "medium")>>
    ELSE IF PnlPercent(p) < -20
    THEN <<NewAlert(PositionAlertId(index, "loss"), "warning", p.symbol, t,
                    "high")>>
    ELSE <<>>

RECURSIVE StrategyAlertsFrom(_, _, _)
StrategyAlertsFrom(k, strats, t) ==
    IF k > Len(SymbolOrder) THEN <<>>
    ELSE (IF SymbolOrder[k] \in DOMAIN strats
          THEN StrategyAlerts(SymbolOrder[k], strats[SymbolOrder[k]], t)
          ELSE <<>>)
         \o StrategyAlertsFrom(k + 1, strats, t)

RECURSIVE PositionAlertsFrom(_, _, _)
PositionAlertsFrom(k, poss, t) ==
    IF k > Len(poss) THEN <<>>
    ELSE PositionAlerts(k - 1, poss[k], t) \o PositionAlertsFrom(k + 1, poss, t)

\* newAlerts of one run of the effect (lines 10-82)
DeriveAlerts(strats, poss, t) ==
    StrategyAlertsFrom(1, strats, t) \o PositionAlertsFrom(1, poss, t)

Ids(list) == { list[i].id : i \in DOMAIN list }

\* uniqueNewAlerts (lines 86-87)
UniqueNewAlerts(prev, new) ==
    LET Fresh(a) == a.id \notin Ids(prev) IN SelectSeq(new, Fresh)

\* (mutation of Recent: the 24-hour filter keeps everything)
AnyAge(a, t) == TRUE

\* alert.timestamp > dayAgo (lines 90-92)
Recent(a, t) == a.timestamp > t - Day

\* one step of a stable sort by timestamp, descending
InsertAlert(sorted, a) ==
    LET k == Cardinality({ i \in DOMAIN sorted :
                             sorted[i].timestamp >= a.timestamp })
    IN SubSeq(sorted, 1, k) \o <<a>> \o SubSeq(sorted, k + 1, Len(sorted))

\* (mutation of SortAlerts: the list is left in the order of the merge)
LeaveUnsorted(list) == list

\* .sort((a, b) => b.timestamp - a.timestamp) (line 93)
RECURSIVE SortAlerts(_)
SortAlerts(list) ==
    IF list = <<>> THEN <<>>
    ELSE InsertAlert(SortAlerts(SubSeq(list, 1, Len(list) - 1)),
                     list[Len(list)])

\* the updater of setAlerts (lines 85-96)
MergeAlerts(prev, new, t) ==
    LET Valid(a) == Recent(a, t)
    IN SortAlerts(SelectSeq(prev \o UniqueNewAlerts(prev, new), Valid))

\* alertOp: the operation, and for a merge the number of alerts it dropped
\* from the list and the number it added to it
AlertOp(op, expired, added) == [op |-> op, expired |-> expired, added |-> added]

\* the alerts of prev that a merge at time t keeps
KeptAlerts(prev, t) == LET Valid(a) == Recent(a, t) IN SelectSeq(prev, Valid)

\* the effect runs (lines 9-97): at mount and whenever the panel is rendered
\* with new strategies or positions objects, of changed or unchanged content
AlertsEffect(strats, poss) ==
    /\ alerts' = MergeAlerts(alerts, DeriveAlerts(strats, poss, now), now)
    /\ alertProps' = [strategies |-> strats, positions |-> poss]
    /\ alertOp' = AlertOp(IF alertProps' = alertProps
                              /\ alertOp.op \in {"merge", "remerge"}
                           THEN "remerge" ELSE "merge",
                           Len(alerts) - Len(KeptAlerts(alerts, now)),
                           Len(alerts') - Len(KeptAlerts(alerts, now)))
    /\ UNCHANGED <<now, dashboardVars, requests>>

\* (mutation of DismissAlert: the alerts listed below the dismissed one go
\* with it)
DismissAlertAndBelow(id) ==
    /\ id \in Ids(alerts)
    /\ alerts' = LET k == CHOOSE i \in DOMAIN alerts : alerts[i].id = id
                 IN SubSeq(alerts, 1, k - 1)
    /\ alertOp' = AlertOp("dismiss", 0, 0)
    /\ UNCHANGED <<alertProps, now, dashboardVars, requests>>

\* dismissAlert (lines 99-101), from the button of a listed alert
DismissAlert(id) ==
    /\ id \in Ids(alerts)
    /\ alerts' = LET Other(a) == a.id # id IN SelectSeq(alerts, Other)
    /\ alertOp' = AlertOp("dismiss", 0, 0)
    /\ UNCHANGED <<alertProps, now, dashboardVars, requests>>

\* clearAllAlerts (lines 103-105); the button is rendered for a non-empty list
ClearAllAlerts ==
    /\ alerts # <<>>
    /\ alerts' = <<>>
    /\ alertOp' = AlertOp("clear", 0, 0)
    /\ UNCHANGED <<alertProps, now, dashboardVars, requests>>

\* half a day passes
AlertsTick ==
    /\ now < MaxTime
    /\ now' = now + 1
    /\ alertOp' = AlertOp("tick", 0, 0)
    /\ UNCHANGED <<alerts, alertProps, dashboardVars, requests>>

\* ------------------------------------------------------------------- Init
\* the state hooks and refs as TradingDashboard constructs them (lines 839-876)
Init ==
    /\ isMounted = TRUE /\ fetchInProgress = FALSE /\ wsRef = 0
    /\ selectedSymbol = "BTCUSD"
    /\ availableStrategies = FALSE
    /\ strategies = [s \in {} |-> [running |-> FALSE]]
    /\ marketData = [s \in {} |-> EmptySnapshot]
    /\ accountData = [balance |-> 0, wallet |-> Empty]
    /\ positionData = [s \in {} |-> Empty]
    /\ tradeData = Empty /\ tradeStats = Empty /\ systemHealth = Empty
    /\ loading = TRUE /\ error = FALSE /\ lastUpdate = 0
    /\ connectionStatus = "disconnected" /\ retryCount = 0
    /\ cycles = {} /\ polls = {} /\ cmds = {}
    /\ timers = [retry |-> 0, refresh |-> 0]
    /\ effectPending = "mount"
    /\ sockets = <<>>
    /\ wsTimers = [s \in TRACKED_SYMBOLS |-> 0]
    /\ rtm = [mounted |-> FALSE, sockets |-> <<>>, timers |-> 0,
              isConnected |-> FALSE, wsMetrics |-> Empty]
    /\ backendRunning = {}
    /\ clock = 0 /\ started = 0 /\ pollTicks = 0 /\ cmdCount = 0
    /\ cmdResult = NoResult
    /\ strategiesSeq = 0 /\ marketDataSeq = 0 /\ failStreak = 0
    /\ lastOp = Op("init", "", 0)
    /\ alerts = <<>>
    /\ alertProps = [strategies |-> [s \in {} |-> Status(FALSE, FALSE, FALSE, 0)],
                     positions |-> <<>>]
    /\ now = 0
    /\ alertOp = AlertOp("init", 0, 0)
    /\ requests = [i \in 1..MaxRequests |-> Call("idle", FALSE, 0, "none")]

\* ------------------------------------------------------------------- Next
\* the steps of the sync cycles, for the answers the backend may give:
\* the key sets of a status answer, whether a request that APIService
\* degrades succeeds, and the sets of symbols whose market request fails
CycleSteps(Doms, Oks, Fails) ==
    \E c \in cycles :
        \/ \E r \in {"fail", "empty", "list"} : AvailDone(c, r)
        \/ \E healthOk \in BOOLEAN, statusOk, walletOk \in Oks,
              balance \in {0, 1}, dom \in Doms :
              /\ (~healthOk => balance = 0 /\ statusOk /\ walletOk)
              /\ (~(healthOk /\ statusOk) => dom = TRACKED_SYMBOLS)
              /\ BasicDone(c, healthOk, balance, statusOk, dom, walletOk)
        \/ \E failed \in Fails : MarketDone(c, failed)
        \/ \E k \in {"positions", "trades", "system"}, ok \in Oks :
              ExtraDone(c, k, ok)

CycleStep == CycleSteps(StatusDomains, BOOLEAN, FailSets)

\* the same with every degradable request succeeding: only the two
\* mandatory calls (strategy list, health check) may fail
CycleStepMandatory == CycleSteps({TRACKED_SYMBOLS}, {TRUE}, {{}})

PollStep ==
    \/ MarketInterval
    \/ StatusInterval
    \/ \E p \in polls, ok \in BOOLEAN, dom \in StatusDomains :
          /\ (~ok => dom = TRACKED_SYMBOLS)
          /\ StatusPollDone(p, ok, dom)
    \/ \E p \in polls, failed \in FailSets : MarketPollDone(p, failed)

UserStep ==
    \/ HandleRetry
    \/ HandleRefresh
    \/ \E kind \in {"start", "stop"} : HandleCommand(kind)

TimerStep ==
    \/ \E kind \in {"retry", "refresh"} : TimerFires(kind)
    \/ \E c \in cmds, r \in CommandAnswers : CommandDone(c, r)

\* the /ws/live channel, for the symbols the user may select
WsSteps(Syms) ==
    \/ \E sym \in Syms : SelectSymbol(sym)
    \/ \E i \in 1..MaxSockets : WsOpen(i)
    \/ \E i \in 1..MaxSockets, valid \in BOOLEAN : WsMessage(i, valid)
    \/ \E i \in 1..MaxSockets : WsClose(i)
    \/ \E sym \in TRACKED_SYMBOLS : ReconnectTimer(sym)

WsStep == WsSteps(TRACKED_SYMBOLS)

\* the same with the user going between two symbols only
WsStepTwoSymbols == WsSteps({"BTCUSD", "ETHUSD"})

MetricsStep ==
    \/ ToggleMetrics
    \/ \E i \in 1..MaxSockets : MetricsOpen(i)
    \/ \E i \in 1..MaxSockets, valid \in BOOLEAN : MetricsMessage(i, valid)
    \/ \E i \in 1..MaxSockets : MetricsClose(i)
    \/ MetricsReconnect

\* the whole dashboard
Next ==
    /\ \/ Mount
       \/ AutoRefreshEffect
       \/ CycleStep
       \/ PollStep
       \/ UserStep
       \/ TimerStep
       \/ WsStep
       \/ MetricsStep
       \/ Unmount
    /\ UNCHANGED <<alertVars, requests>>

Spec == Init /\ [][Next]_vars

\* Every caller of fetchData and every exit of a cycle, with the answers of
\* the degradable requests fixed to success: the control flow of the cycles
NextCycle ==
    /\ \/ Mount
       \/ AutoRefreshEffect
       \/ CycleStepMandatory
       \/ UserStep
       \/ TimerStep
       \/ Unmount
    /\ UNCHANGED <<alertVars, requests>>

SpecCycle == Init /\ [][NextCycle]_vars

\* The same where the mount effect runs and every request of a cycle is
\* answered at last: a continuation that can run does run
MountRuns == Mount /\ UNCHANGED <<alertVars, requests>>
RequestsAnswered == CycleStepMandatory /\ UNCHANGED <<alertVars, requests>>

SpecCycleFair ==
    SpecCycle /\ WF_vars(MountRuns) /\ WF_vars(RequestsAnswered)

\* no more than n cycles are started
Cap(n) == started' <= n

\* The data of the cycles: every answer of the backend varies, cycles are
\* started by the mount effect, the effect's re-run and the Refresh button
NextData ==
    /\ \/ Mount
       \/ AutoRefreshEffect /\ Cap(MaxDataCycles)
       \/ CycleStep
       \/ HandleRefresh /\ Cap(MaxDataCycles)
       \/ Unmount
    /\ UNCHANGED <<alertVars, requests>>

SpecData == Init /\ [][NextData]_vars

\* The data of the cycles where the backend may also answer for a symbol
\* that is not tracked; cycles are started by the mount effect and the
\* Refresh button
NextKeys ==
    /\ \/ Mount
       \/ CycleSteps(BackendDomains, BOOLEAN, FailSets)
       \/ HandleRefresh /\ Cap(MaxDataCycles)
       \/ Unmount
    /\ UNCHANGED <<alertVars, requests>>

SpecKeys == Init /\ [][NextKeys]_vars

\* The light polls after the cycle the mount effect starts
NextPoll ==
    /\ \/ Mount
       \/ CycleStepMandatory
       \/ PollStep
       \/ Unmount
    /\ UNCHANGED <<alertVars, requests>>

SpecPoll == Init /\ [][NextPoll]_vars

\* The /ws/live channel of the dashboard beside the cycle the mount effect
\* starts
NextWs ==
    /\ \/ Mount
       \/ CycleStepMandatory
       \/ WsStepTwoSymbols
       \/ Unmount
    /\ UNCHANGED <<alertVars, requests>>

SpecWs == Init /\ [][NextWs]_vars

\* The /ws/metrics channel of RealTimeMetrics beside the cycle the mount
\* effect starts
NextMetrics ==
    /\ \/ Mount
       \/ CycleStepMandatory
       \/ MetricsStep
       \/ Unmount
    /\ UNCHANGED <<alertVars, requests>>

SpecMetrics == Init /\ [][NextMetrics]_vars

\* The messages of both channels, /ws/live for the symbol selected at the
\* mount (while the server keeps the socket open) and /ws/metrics, beside
\* the cycle the mount effect starts
NextMessages ==
    /\ \/ Mount
       \/ CycleStepMandatory
       \/ \E i \in 1..MaxSockets : WsOpen(i)
       \/ \E i \in 1..MaxSockets, valid \in BOOLEAN : WsMessage(i, valid)
       \/ MetricsStep
       \/ Unmount
    /\ UNCHANGED <<alertVars, requests>>

SpecMessages == Init /\ [][NextMessages]_vars

\* The alerts panel on its own: the dashboard renders it without the
\* strategies and positions props (PositionMonitor.js lines 1570-1574), so
\* no step of the dashboard reaches its effect
NextAlerts ==
    \/ \E strats \in StrategyInputs, poss \in PositionInputs :
          AlertsEffect(strats, poss)
    \/ \E id \in Ids(alerts) : DismissAlert(id)
    \/ ClearAllAlerts
    \/ AlertsTick

SpecAlerts == Init /\ [][NextAlerts]_vars

\* Calls of APIService.request on their own
NextRequest ==
    \/ \E i \in 1..MaxRequests : RequestStart(i)
    \/ \E i \in 1..MaxRequests, ok \in BOOLEAN : FetchResolves(i, ok)
    \/ \E i \in 1..MaxRequests : FetchRejects(i)
    \/ \E i \in 1..MaxRequests, good \in BOOLEAN : BodyRead(i, good)
    \/ \E i \in 1..MaxRequests : TimeoutFires(i)
    \/ RequestTick

SpecRequest == Init /\ [][NextRequest]_vars

\* ================================================================ claims
\* the handlers that call fetchData
Callers == {"mount", "effect", "timerFires", "handleRefresh"}
\* the requests of the steps after the two mandatory calls
LaterRequests == {"market", "positions", "trades", "system"}

\* C1: at most one sync cycle is active at any time, and a fetchData call
\* made while a cycle is active changes nothing: it issues no request, starts
\* and queues no cycle, and raises no error.
C1_AtMostOneCycle ==
    /\ [](Cardinality(cycles) <= 1)
    /\ [][(lastOp'.op \in Callers /\ cycles # {}) =>
            /\ cycles' = cycles /\ polls' = polls /\ cmds' = cmds
            /\ started' = started /\ clock' = clock
            /\ error' = error /\ connectionStatus' = connectionStatus
            /\ effectPending' \in {effectPending, "none"}
            /\ \A k \in DOMAIN timers : timers'[k] <= timers[k]]_vars

\* C1 witness: a timer or the Refresh button called fetchData while a cycle
\* was past its first await, and the cycle is still the only one.
C1_Witness ==
    /\ lastOp.op \in {"timerFires", "handleRefresh"} /\ isMounted
    /\ \E c \in cycles : c.pc # "avail"

\* C2 (as claimed): once the dashboard is unmounted no ViewModel state
\* (marketData, strategies, accountData, positionData, tradeData, tradeStats,
\* systemHealth, connectionStatus, lastUpdate) changes again, whichever fetch
\* continuation, timer or WebSocket callback runs.
C2_NoMutationAfterUnmount ==
    [][~isMounted => UNCHANGED viewModel]_vars

\* C3 (as claimed): no write to strategies or to marketData carries the
\* result of a fetch started before the fetch whose result it replaces.
C3_NoStaleOverwrite ==
    [][/\ strategiesSeq' >= strategiesSeq
       /\ marketDataSeq' >= marketDataSeq]_vars

\* C4 (as claimed): a message of a /ws/live socket whose symbol is not the
\* selected one any more (its channel was closed by the symbol switch)
\* leaves marketData as it is, be the socket the closed one or one that the
\* closed channel's reconnect timer opened.
C4_ClosedChannelIsSilent ==
    [][(lastOp'.op = "wsMessage" /\ lastOp'.sym # selectedSymbol) =>
         marketData' = marketData]_vars

\* C5 (as claimed): a reconnect timer opens a new connection only for a
\* channel that was not torn down: for /ws/live the dashboard is mounted and
\* the timer's symbol is the selected one, for /ws/metrics RealTimeMetrics
\* is mounted.
C5_NoConnectionAfterTeardown ==
    [][/\ lastOp'.op = "reconnect" =>
            (isMounted /\ lastOp'.sym = selectedSymbol)
       /\ lastOp'.op = "metricsReconnect" => rtm.mounted]_vars

\* C6: a cycle whose strategy-list fetch or health check fails (while the
\* dashboard is mounted) ends there: it has issued no request of a later
\* step, it issues none, connectionStatus becomes error and lastUpdate is
\* left as it was.
C6_MandatoryFailureAborts ==
    [][(lastOp'.op = "cycleFailed" /\ isMounted) =>
         /\ \A c \in cycles \ cycles' : c.reqs \cap LaterRequests = {}
         /\ cycles' \subseteq cycles /\ polls' = polls
         /\ connectionStatus' = "error"
         /\ lastUpdate' = lastUpdate]_vars

\* C6 witness: a health check failed after the strategy list had loaded.
C6_Witness ==
    /\ lastOp = Op("cycleFailed", "health", started) /\ isMounted
    /\ connectionStatus = "error" /\ availableStrategies

\* C7 (as claimed): right after a failed cycle a retry is scheduled without
\* any user action: a retry timer is armed, or the next cycle is already
\* queued or running.
C7_RetryScheduled ==
    (lastOp.op = "cycleFailed" /\ isMounted) =>
        (timers.retry > 0 \/ effectPending = "rerun" \/ cycles # {})

\* C8 (as claimed): the retry requested after the n-th consecutive failed
\* cycle waits min(1000 * 2^(n-1), 10000) ms: 1000 after the first failure.
C8_DelayFromOneSecond ==
    lastOp.op = "handleRetry" =>
        lastOp.n = Min(1000 * Pow2(failStreak - 1), 10000)

\* C8 (amended): the retry requested after the n-th consecutive failed cycle
\* (n >= 1) waits min(1000 * 2^n, 10000) ms: 2000, 4000, 8000, 10000, ...;
\* no retry waits more than 10000 ms.
C8_DelayFromTwoSeconds ==
    lastOp.op = "handleRetry" =>
        /\ failStreak >= 1
        /\ lastOp.n = Min(1000 * Pow2(failStreak), 10000)
        /\ lastOp.n <= 10000

\* C8 witness: the retry after the fourth consecutive failure, where the cap
\* applies (16000 > 10000).
C8_Witness ==
    lastOp.op = "handleRetry" /\ failStreak = 4 /\ lastOp.n = 10000

\* an entry of a slice stays as it was
Kept(old, new, s) == s \in DOMAIN old => (s \in DOMAIN new /\ new[s] = old[s])

\* C9 (as claimed): when the status or the wallet request of a cycle's second
\* step fails, strategies resp. accountData.wallet keep the value they had,
\* and the cycle goes on to its next step with connectionStatus = connected.
C9_FailedSliceKept ==
    [][(lastOp'.op = "basicDone" /\ lastOp'.sym # "ok") =>
         /\ lastOp'.sym \in {"status", "both"} => strategies' = strategies
         /\ lastOp'.sym \in {"wallet", "both"} =>
                accountData'.wallet = accountData.wallet
         /\ connectionStatus' = "connected"
         /\ \E c \in cycles' : c.seq = lastOp'.n /\ c.pc = "market"]_vars

\* C10 (as claimed): a tracked symbol that the answer to a status or market
\* request (of a cycle or of a light poll) does not carry keeps its entry of
\* strategies resp. marketData.
C10_AbsentSymbolKept ==
    [][isMounted =>
         \A s \in TRACKED_SYMBOLS \ lastOp'.keys :
            /\ lastOp'.op \in {"basicDone", "statusPollDone"} =>
                   Kept(strategies, strategies', s)
            /\ lastOp'.op \in {"marketDone", "marketPollDone"} =>
                   Kept(marketData, marketData', s)]_vars

\* C11: in a cycle past its two mandatory calls, failed market requests do
\* not abort the cycle.  The cycle's market write gives every failed symbol
\* {} (or the value it had) and every other symbol the snapshot just
\* fetched, and the cycle goes on to its last step; no cycle past the
\* mandatory calls ends in the catch block; a cycle that completes leaves
\* connectionStatus = connected.
C11_MarketFailureDegrades ==
    [][/\ (lastOp'.op = "marketDone") =>
            /\ \A s \in lastOp'.keys : marketData'[s] = Snapshot
            /\ \A s \in TRACKED_SYMBOLS \ lastOp'.keys :
                  \/ marketData'[s] = EmptySnapshot
                  \/ s \in DOMAIN marketData /\ marketData'[s] = marketData[s]
            /\ \E c \in cycles' : c.seq = lastOp'.n /\ c.pc = "extra"
            /\ connectionStatus' = "connected"
       /\ (lastOp'.op = "cycleFailed") =>
            \A c \in cycles \ cycles' : c.pc \in {"avail", "basic"}
       /\ (lastOp'.op = "cycleCompleted") => connectionStatus' = "connected"]_vars

\* C11 witness: a cycle completed although its ETHUSD market request failed;
\* ETHUSD is {} and the other symbols hold their snapshots.
C11_Witness ==
    /\ lastOp.op = "cycleCompleted" /\ isMounted
    /\ marketData = getMarketData({"ETHUSD"})
    /\ marketData["ETHUSD"] = EmptySnapshot /\ marketData["BTCUSD"] = Snapshot
    /\ connectionStatus = "connected" /\ lastUpdate = lastOp.n

\* C12: lastUpdate is set by every cycle that reaches full completion (while
\* the dashboard is mounted), whatever degraded in it, and by nothing else:
\* every other step, among them an aborted cycle, a dropped fetchData call,
\* a light poll and a WebSocket message, leaves it as it is.
C12_LastUpdateOnCompletionOnly ==
    [][/\ (lastOp'.op = "cycleCompleted" /\ isMounted) =>
            lastUpdate' = lastOp'.n
       /\ (lastOp'.op # "cycleCompleted") => lastUpdate' = lastUpdate]_vars

\* C12 witness: the second or a later cycle completed and stamped lastUpdate
\* although its status, market and system-health requests had failed.
C12_Witness ==
    /\ lastOp.op = "cycleCompleted" /\ isMounted /\ lastOp.n >= 2
    /\ lastUpdate = lastOp.n
    /\ DOMAIN strategies = {} /\ systemHealth = Fallback
    /\ marketData["ETHUSD"] = EmptySnapshot

\* C13 (as claimed): when the 1-second timer of a successful start or stop
\* command fires while the dashboard is mounted, a cycle that is still to
\* fetch the strategy status is running afterwards, also when another cycle
\* was active at that moment.
C13_RefreshCycleStarted ==
    [][(lastOp'.op = "timerFires" /\ lastOp'.sym = "refresh" /\ isMounted) =>
         \E c \in cycles' : c.pc \in {"avail", "basic"}]_vars

\* C14: when a start or stop command fails (a rejected request, an empty
\* answer or an answer with success: false), the handler returns
\* {success: false, message} without throwing, the message being the
\* backend's, the error's or (for an empty answer) the handler's own; it
\* arms no timer, starts no cycle and sends no other command.
C14_FailedCommandSurfaced ==
    [][(lastOp'.op = "commandDone" /\ lastOp'.sym # "ok") =>
         /\ ~cmdResult'.success /\ ~cmdResult'.thrown
         /\ cmdResult'.message =
               (IF lastOp'.sym = "refused" THEN "backend"
                ELSE IF lastOp'.sym = "error" THEN "error"
                ELSE "No response from server")
         /\ timers' = timers /\ cycles' = cycles /\ started' = started
         /\ cmds' \subseteq cmds /\ cmdCount' = cmdCount]_vars

\* C14 witness: a rejected command returned {success: false, error.message};
\* no timer is pending and no command is in flight.
C14_Witness ==
    /\ lastOp.op = "commandDone" /\ lastOp.sym = "error" /\ isMounted
    /\ cmdResult = [success |-> FALSE, message |-> "error", thrown |-> FALSE]
    /\ timers.refresh = 0 /\ cmds = {}

\* C15: after every operation on the alert list (merge, dismissAlert,
\* clearAllAlerts), in every sequence of them, the list is sorted by
\* timestamp, newest first, and no two of its alerts have the same id.
C15_SortedAndUnique ==
    \A i, j \in DOMAIN alerts :
        i < j => /\ alerts[i].timestamp >= alerts[j].timestamp
                 /\ alerts[i].id # alerts[j].id

\* C15 witness: a dismissal left a list with alerts of different ages.
C15_Witness ==
    /\ alertOp.op = "dismiss" /\ Len(alerts) >= 3
    /\ alerts[1].timestamp > alerts[Len(alerts)].timestamp

\* C16: after a merge the list holds no alert whose timestamp lies more than
\* 24 hours before the time of the merge.
C16_NoAlertOlderThanADay ==
    alertOp.op \in {"merge", "remerge"} =>
        \A i \in DOMAIN alerts : ~(alerts[i].timestamp < now - Day)

\* C16 witness: a merge dropped an alert that had become a day old and kept
\* a younger one.
C16_Witness ==
    /\ alertOp.op = "merge" /\ alertOp.expired > 0
    /\ \E i \in DOMAIN alerts : alerts[i].timestamp < now

\* a position with margin > 0 and unrealized_pnl / margin > 50%
HighProfit(p) == p.margin > 0 /\ 2 * p.unrealized_pnl > p.margin

\* C17 (as claimed): for a position with margin > 0 and unrealized_pnl / margin > 50% a
\* derivation yields exactly one alert of that position; it is of type
\* success and priority medium and carries the position's symbol.  A second
\* derivation and merge right after, with the same strategies and
\* positions, adds no alert to the list.
C17_OneProfitAlertIdempotent ==
    LET derived == DeriveAlerts(alertProps.strategies, alertProps.positions, now)
        poss == alertProps.positions
    IN /\ alertOp.op \in {"merge", "remerge"} =>
            \A k \in DOMAIN poss :
                HighProfit(poss[k]) =>
                    /\ Cardinality({ i \in DOMAIN derived :
                                       derived[i].id.scope = "pos"
                                       /\ derived[i].id.index = k - 1 }) = 1
                    /\ \E i \in DOMAIN derived :
                          /\ derived[i].id = PositionAlertId(k - 1, "profit")
                          /\ derived[i].type = "success"
                          /\ derived[i].priority = "medium"
                          /\ derived[i].symbol = poss[k].symbol
       /\ (alertOp.op = "remerge" /\ \E k \in DOMAIN poss : HighProfit(poss[k]))
             => alertOp.added = 0

\* C18 (as claimed): for every symbol whose strategy status carries an
\* error, whatever else the status says, a derivation yields an alert of
\* type error and priority high for that symbol.
C18_ErrorAlwaysAlerted ==
    LET derived == DeriveAlerts(alertProps.strategies, alertProps.positions, now)
        strats == alertProps.strategies
    IN alertOp.op \in {"merge", "remerge"} =>
          \A sym \in DOMAIN strats :
              strats[sym].error =>
                  \E i \in DOMAIN derived :
                      /\ derived[i].symbol = sym
                      /\ derived[i].type = "error"
                      /\ derived[i].priority = "high"

\* C19 (as claimed): no call of APIService.request is pending for longer
\* than the request timeout, be it waiting for the response headers or
\* reading the response body: by then it has returned or failed.
C19_RequestBounded ==
    \A i \in DOMAIN requests :
        requests[i].state \in Pending => requests[i].elapsed <= requestTimeout

\* C20: a tick of the market interval or of the status interval starts
\* fetchStrategiesStatus and, for the market interval, fetchMarketData, and
\* nothing else: no sync cycle starts, so no strategy-list request is made;
\* and it starts them only while connectionStatus is 'connected' and no sync
\* cycle is active.
C20_LightPollOnly ==
    [][lastOp'.op \in {"marketInterval", "statusInterval"} =>
         /\ connectionStatus = "connected"
         /\ cycles = {} /\ ~fetchInProgress
         /\ cycles' = cycles /\ started' = started /\ cmds' = cmds
         /\ polls \subseteq polls'
         /\ polls' \ polls # {}
         /\ \A p \in polls' \ polls :
               p.kind \in {"status", "market"} /\ p.seq = lastOp'.n]_vars

\* C20 witness: the market interval has fired and started both light fetches
C20_Witness ==
    /\ lastOp.op = "marketInterval"
    /\ connectionStatus = "connected" /\ cycles = {}
    /\ {[kind |-> "status", seq |-> lastOp.n],
        [kind |-> "market", seq |-> lastOp.n]} \subseteq polls

\* C21: a valid message on a /ws/live channel for symbol S (it carries a
\* price) makes marketData[S] the shallow merge of its prior value and the
\* message: the price is the message's, every other field is the prior one
\* (absent if S had no entry); every other symbol's entry and every other
\* ViewModel slice stay as they were.
C21_MessageIsShallowMerge ==
    [][lastOp'.op = "wsMessage" =>
         LET S == lastOp'.sym IN
         /\ DOMAIN marketData' = DOMAIN marketData \cup {S}
         /\ marketData'[S].price = Pushed
         /\ \A f \in Fields \ {"price"} :
               marketData'[S][f] =
                  (IF S \in DOMAIN marketData THEN marketData[S][f] ELSE Empty)
         /\ \A s \in DOMAIN marketData \ {S} : marketData'[s] = marketData[s]
         /\ UNCHANGED <<strategies, accountData, positionData, tradeData,
                        tradeStats, systemHealth, connectionStatus,
                        lastUpdate>>]_vars

\* C21 witness: a message for the selected symbol was merged into the
\* snapshot a cycle had fetched: the pushed price beside the fetched volume,
\* the other symbols' snapshots untouched.
C21_Witness ==
    /\ lastOp.op = "wsMessage" /\ lastOp.sym = selectedSymbol
    /\ DOMAIN marketData = TRACKED_SYMBOLS
    /\ marketData[lastOp.sym] = [price |-> Pushed, volume |-> Data]
    /\ \A s \in TRACKED_SYMBOLS \ {lastOp.sym} : marketData[s] = Snapshot

\* the moves of connectionStatus the state machine draws
StatusMoves ==
    {<<"disconnected", "connecting">>, <<"connecting", "connected">>,
     <<"connected", "error">>, <<"error", "connected">>}

\* a light poll's answer, or a cycle's exit, that reports a failed request
PollFailed(op) ==
    \/ op.op = "cycleFailed"
    \/ op.op = "statusPollDone" /\ op.sym = "status"
    \/ op.op = "marketPollDone" /\ op.keys # TRACKED_SYMBOLS

\* C22 (as claimed): connectionStatus changes only along disconnected ->
\* connecting -> connected -> error -> connected; it becomes connected only
\* in the step in which a health check succeeded; and whenever a sync cycle
\* or a light poll of the strategy status or the market data fails while
\* it is connected (and the dashboard mounted), it becomes error.
C22_StatusMachine ==
    [][/\ connectionStatus' # connectionStatus =>
            <<connectionStatus, connectionStatus'>> \in StatusMoves
       /\ (connectionStatus' = "connected" /\ connectionStatus # "connected")
            => lastOp'.op = "basicDone"
       /\ (PollFailed(lastOp') /\ isMounted /\ connectionStatus = "connected")
            => connectionStatus' = "error"]_vars

\* C23 (as claimed): in every reachable state the keys of marketData,
\* strategies and positionData are tracked symbols, whatever the answers of
\* the backend and the WebSocket messages carry.
C23_KeysAreTracked ==
    /\ DOMAIN marketData \subseteq TRACKED_SYMBOLS
    /\ DOMAIN strategies \subseteq TRACKED_SYMBOLS
    /\ DOMAIN positionData \subseteq TRACKED_SYMBOLS

\* C24 (as claimed): while the last cycle that ended has failed, a new cycle
\* is started only by a timer that fires (the backoff retry Retry armed, or
\* the refresh timer of a successful command) or by the Refresh button,
\* never by the auto-refresh effect that the change of connectionStatus to
\* error re-runs.
C24_NoCycleWithoutDelay ==
    [][(started' > started /\ failStreak > 0) =>
         lastOp'.op \in {"timerFires", "handleRefresh"}]_vars

\* C25: while the dashboard is mounted, retryCount is the number of
\* consecutive failed sync cycles since the last one that completed: a cycle
\* that fails adds exactly 1, a cycle that completes sets it to 0, and every
\* other step (a dropped fetchData call, a light poll, handleRetry, a
\* WebSocket message, ...) leaves it as it is.
C25_RetryCountIsFailStreak ==
    /\ [](isMounted => retryCount = failStreak)
    /\ [][/\ (lastOp'.op = "cycleFailed" /\ isMounted) =>
               retryCount' = retryCount + 1
          /\ (lastOp'.op = "cycleCompleted" /\ isMounted) => retryCount' = 0
          /\ lastOp'.op \notin {"cycleFailed", "cycleCompleted"} =>
               retryCount' = retryCount]_vars

\* C25 witness: the second failure in a row has been counted, after a retry
\* was dropped or started by a timer
C25_Witness ==
    /\ lastOp.op = "cycleFailed" /\ isMounted
    /\ retryCount = 2 /\ failStreak = 2

\* C26: provided every HTTP request is answered at last, every cycle that
\* started ends, and the step that ends it (completion, a failed mandatory
\* call, or the return after an unmount) leaves fetchInProgress cleared
\* and, while the dashboard is mounted, loading cleared; so loading, once
\* set (by the mount or by a Refresh, dropped or not), is cleared again
\* while the dashboard stays mounted.
C26_CycleEndsAndClearsFlags ==
    /\ (cycles # {}) ~> (cycles = {} /\ ~fetchInProgress)
    /\ (isMounted /\ loading) ~> (~isMounted \/ ~loading)
    /\ [][Cardinality(cycles') < Cardinality(cycles) =>
            (~fetchInProgress' /\ (isMounted => ~loading'))]_vars

\* C26 witness: a Refresh was dropped by the guard (the active cycle is
\* past its first await): loading is set and a cycle is running
C26_Witness ==
    /\ lastOp.op = "handleRefresh" /\ isMounted /\ loading /\ fetchInProgress
    /\ \E c \in cycles : c.pc # "avail"

\* the /ws/live sockets that are connecting or open
LiveChannels ==
    { i \in DOMAIN sockets : sockets[i].state \in {"connecting", "open"} }

\* C27 (as claimed): at any time at most one /ws/live socket is connecting
\* or open; it is a socket for the selected symbol and wsRef refers to it,
\* whatever symbol switches, closes by the server and reconnect timers
\* came before.
C27_OneChannelOfSelectedSymbol ==
    /\ Cardinality(LiveChannels) <= 1
    /\ \A i \in LiveChannels : sockets[i].sym = selectedSymbol /\ wsRef = i

\* C28: a message that is not valid JSON is dropped.  On /ws/live the
\* ViewModel and the sockets stay as they are and the socket is still open;
\* on /ws/metrics the component's state (wsMetrics, isConnected, sockets)
\* stays as it is and the socket is still open.  A valid message that the
\* same socket delivers next is merged resp. stored.
C28_MalformedMessageDropped ==
    [][/\ lastOp'.op = "wsMalformed" =>
            /\ UNCHANGED <<viewModel, sockets, wsTimers, wsRef>>
            /\ sockets'[lastOp'.n].state = "open"
       /\ lastOp'.op = "metricsMalformed" =>
            /\ UNCHANGED <<rtm, viewModel>>
            /\ rtm'.sockets[lastOp'.n] = "open"
       /\ (lastOp.op = "wsMalformed" /\ lastOp'.op = "wsMessage"
             /\ lastOp'.n = lastOp.n) =>
            marketData'[lastOp'.sym].price = Pushed
       /\ (lastOp.op = "metricsMalformed" /\ lastOp'.op = "metricsMessage"
             /\ lastOp'.n = lastOp.n) =>
            rtm'.wsMetrics = Pushed]_vars

\* C28 witness: a malformed /ws/live message arrived after a cycle had
\* fetched the snapshots and a valid /ws/metrics message had been stored:
\* both are intact and the socket is open
C28_Witness ==
    /\ lastOp.op = "wsMalformed" /\ sockets[lastOp.n].state = "open"
    /\ marketData = getMarketData({})
    /\ rtm.wsMetrics = Pushed

\* C29 (as claimed): the alerts of one derivation hold, for each rule
\* (error, longtime, profit, loss), at most one alert per symbol, also when
\* several positions are of the same symbol; and no position gets both a
\* profit and a loss alert.
C29_OneAlertPerSymbolAndRule ==
    LET derived == DeriveAlerts(alertProps.strategies, alertProps.positions, now)
    IN alertOp.op \in {"merge", "remerge"} =>
          /\ \A i, j \in DOMAIN derived :
                (i # j /\ derived[i].symbol = derived[j].symbol)
                    => derived[i].id.kind # derived[j].id.kind
          /\ \A k \in DOMAIN alertProps.positions :
                ~(/\ PositionAlertId(k - 1, "profit") \in Ids(derived)
                  /\ PositionAlertId(k - 1, "loss") \in Ids(derived))

\* the alerts of a list, as a set
AlertSet(list) == { list[i] : i \in DOMAIN list }

\* C30: dismissAlert removes the alert of one id, whatever its age, and
\* keeps every other alert as it is; clearAllAlerts empties the list.  No
\* step but a derivation brings an id into the list, so a removed alert
\* stays absent until then; a derivation that observes the condition of an
\* id that is absent from the list puts an alert of that id into the list
\* with the time of the derivation as its timestamp.
C30_RemovedUntilDerivedAgain ==
    [][/\ alertOp'.op = "dismiss" =>
            \E id \in Ids(alerts) :
                /\ AlertSet(alerts') = { a \in AlertSet(alerts) : a.id # id }
                /\ Len(alerts') = Len(alerts) - 1
       /\ alertOp'.op = "clear" => alerts' = <<>>
       /\ alertOp'.op \notin {"merge", "remerge"} =>
            Ids(alerts') \subseteq Ids(alerts)
       /\ alertOp'.op \in {"merge", "remerge"} =>
            \A id \in Ids(DeriveAlerts(alertProps'.strategies,
                                       alertProps'.positions, now)) \ Ids(alerts) :
                \E i \in DOMAIN alerts' :
                    alerts'[i].id = id /\ alerts'[i].timestamp = now]_vars

\* C30 witness: half a day or more after the derivations, an alert whose
\* condition still holds was dismissed and is absent, and alerts of
\* different ages are left in the list
C30_Witness ==
    /\ alertOp.op = "dismiss" /\ now >= 1 /\ Len(alerts) >= 2
    /\ alerts[1].timestamp > alerts[Len(alerts)].timestamp
    /\ Ids(DeriveAlerts(alertProps.strategies, alertProps.positions, now))
          \ Ids(alerts) # {}
====
